---------------------------- MODULE Spec2Model ----------------------------
(***************************************************************************)
(* The change-sync relay of the Blade Hive sync guide: the Sync Receiver   *)
(* endpoints (examples/convex/router.ts, docs/COMPLETE_GUIDE.md,           *)
(* docs/QUICK_START.md) and the target-store operations they call          *)
(* (Convex mutations of the Convex reference, Prisma-style upsert/delete   *)
(* of the guides).                                                          *)
(*                                                                         *)
(* The repository documents several alternative Receiver deployments.  A   *)
(* behaviour of this model is one deployment (chosen in Init) serving a    *)
(* sequence of HTTP requests: Idle --handler--> Responded --Respond-->     *)
(* Idle.  In a Responded state `req` is the request just handled, `resp`   *)
(* the response, `before` the target store as it was when the request      *)
(* arrived and `db` the target store the handler left.                     *)
(***************************************************************************)
EXTENDS Integers, Sequences, FiniteSets, TLC

VARIABLES deployment, env, db, pc, req, resp, before,
          helper, accounts, tasks, local, done, unsynced,
          run, helperCalls, handlers

receiver == << deployment, env, db, pc, req, resp, before >>

\* unsynced is a history variable: some local mutation's trigger sent no
\* message for it, or some message was not answered with success.
relay == << helper, accounts, tasks, local, done, unsynced >>

\* The trigger invocation looked at record by record, and the helper calls
\* it has made.
dispatcher == << run, helperCalls >>

\* The Receiver's request handlers that are running at the same time.
concurrent == << handlers >>

vars == << deployment, env, db, pc, req, resp, before,
          helper, accounts, tasks, local, done, unsynced, run, helperCalls, handlers >>

-----------------------------------------------------------------------------
(* Bounds *)

\* Documents the whole target store may hold (inserts beyond it are not explored).
MaxDocs == 2

\* Entries of a batch request.
MaxBatch == 2

-----------------------------------------------------------------------------
(* Values.  Every JavaScript value of the model is a string; Undefined is a *)
(* missing header / JSON key, NonStr a JSON value that is not a string     *)
(* (a number), "" the empty string.                                        *)

Undefined == "undefined"
NonStr == "#7"
Secret == "s3cr3t"

\* JavaScript truthiness of a value that is undefined, a string or a number.
Truthy(x) ==
    x \notin {Undefined, ""}

Deployments == {"convex", "complete", "quick", "quickPrisma"}
Tables == {"users", "posts", "comments"}

Keys == {"u1", "u2"}
Emails == {"a@x.com", "b@x.com"}
Names == {"A", "B"}
Titles == {"T"}

\* A record of the target store.  users rows carry email/name, posts and
\* comments rows carry title (standing for the row's content columns).
Doc(k, e, n, t) ==
    [bladeId |-> k, email |-> e, name |-> n, title |-> t]

\* The `data` payload of a message; present = FALSE is a body without `data`.
NoData ==
    [present |-> FALSE, bladeId |-> Undefined, email |-> Undefined,
     name |-> Undefined, title |-> Undefined]

DataVals ==
    {NoData} \cup
    [present : {TRUE}, bladeId : Keys \cup {Undefined}, email : Emails \cup {Undefined},
     name : Names \cup {Undefined}, title : Titles \cup {Undefined}]

UserData(k, e, n) ==
    [present |-> TRUE, bladeId |-> k, email |-> e, name |-> n, title |-> Undefined]

PostData(k, t) ==
    [present |-> TRUE, bladeId |-> k, email |-> Undefined, name |-> Undefined, title |-> t]

EmptyDb ==
    [t \in Tables |-> << >>]

DocCount(d) ==
    Len(d["users"]) + Len(d["posts"]) + Len(d["comments"])

\* Positions of the rows of table tbl keyed k.
Rows(tbl, k) ==
    {i \in 1..Len(tbl) : tbl[i].bladeId = k}

RECURSIVE Without(_, _)
\* tbl without the rows at the positions in S, order kept.
Without(tbl, S) ==
    IF tbl = << >> THEN << >>
    ELSE LET n == Len(tbl)
             rest == Without(SubSeq(tbl, 1, n - 1), S)
         IN IF n \in S THEN rest ELSE Append(rest, tbl[n])

\* Smallest element of a non-empty set of positions: the row `.first()` returns.
First(S) ==
    CHOOSE i \in S : \A j \in S : i <= j

-----------------------------------------------------------------------------
(* Responses.  `calls` lists the target-store calls the handler issued     *)
(* while it handled the request (whether or not they succeeded).           *)

\* An error response that carries the status and the description only.
ResponseWithoutEcho(status, kind, error, r, calls) ==
    [status |-> status, kind |-> kind, error |-> error,
     model |-> Undefined, operation |-> Undefined, id |-> Undefined,
     successful |-> 0, failed |-> 0, total |-> 0, calls |-> calls]

Response(status, kind, error, r, calls) ==
    [status |-> status, kind |-> kind, error |-> error,
     model |-> r.model, operation |-> r.operation, id |-> r.id,
     successful |-> 0, failed |-> 0, total |-> 0, calls |-> calls]

\* A response that echoes nothing of the request.
Bare(status, kind, error, calls) ==
    [status |-> status, kind |-> kind, error |-> error,
     model |-> Undefined, operation |-> Undefined, id |-> Undefined,
     successful |-> 0, failed |-> 0, total |-> 0, calls |-> calls]

BatchResponse(successful, failed, total, calls) ==
    [status |-> 200, kind |-> "Batch", error |-> Undefined,
     model |-> Undefined, operation |-> Undefined, id |-> Undefined,
     successful |-> successful, failed |-> failed, total |-> total, calls |-> calls]

NoResponse ==
    Bare(0, "None", Undefined, << >>)

\* An exception that leaves the route handler: the framework answers 500 itself.
Uncaught(calls) ==
    Bare(500, "Uncaught", "Internal Server Error", calls)

NoRequest ==
    [route |-> "none", hdr |-> Undefined, model |-> Undefined, operation |-> Undefined,
     id |-> Undefined, data |-> NoData, ts |-> Undefined, hasRecords |-> FALSE,
     records |-> << >>]

\* The outcome of a handler: the store it leaves and the response it sends.
Outcome(d, response) ==
    [db |-> d, resp |-> response]

\* The outcome of one store call: ok = FALSE is a thrown error (store unchanged).
Done(tbl) ==
    [ok |-> TRUE, tbl |-> tbl]

Thrown(tbl) ==
    [ok |-> FALSE, tbl |-> tbl]

-----------------------------------------------------------------------------
(* The Convex target store: schema and mutations.                          *)

\* users rows need a string name (name: v.string()).
SchemaOk(table, doc) ==
    table = "users" => doc.name # Undefined

\* db.patch with name: undefined removes the field, which the users schema
\* rejects; the mutation then fails as a whole.
UsersPatch(tbl, i, args) ==
    LET doc == [tbl[i] EXCEPT !.name = args.name, !.bladeId = args.bladeId]
    IN IF SchemaOk("users", doc) THEN Done([tbl EXCEPT ![i] = doc]) ELSE Thrown(tbl)

\* The row an existing user is looked up by: the by_email index.
UsersLookup(tbl, args) ==
    {i \in 1..Len(tbl) : tbl[i].email = args.email}

\* users:syncFromBlade.  args validator: bladeId and email are required strings,
\* name is optional, fields the validator does not name are rejected.
UsersSyncFromBlade(tbl, args) ==
    IF ~args.present \/ args.bladeId = Undefined \/ args.email = Undefined
       \/ args.title # Undefined
    THEN Thrown(tbl)
    ELSE LET existingUser == UsersLookup(tbl, args)
         IN IF existingUser # {}
            THEN UsersPatch(tbl, First(existingUser), args)
            ELSE Done(Append(tbl, Doc(args.bladeId, args.email,
                                      IF Truthy(args.name) THEN args.name ELSE "User",
                                      Undefined)))

\* posts:syncFromBlade.  title stands for the content columns the mutation
\* writes on both branches (title, content, published); the lookup is a filter
\* on bladeId.
PostsSyncFromBlade(tbl, args) ==
    IF ~args.present \/ args.bladeId = Undefined \/ args.title = Undefined
       \/ args.email # Undefined \/ args.name # Undefined
    THEN Thrown(tbl)
    ELSE LET existingPost == Rows(tbl, args.bladeId)
         IN IF existingPost # {}
            THEN Done([tbl EXCEPT ![First(existingPost)].title = args.title])
            ELSE Done(Append(tbl, Doc(args.bladeId, Undefined, Undefined, args.title)))

\* comments:syncFromBlade is called by the router but defined nowhere in the
\* repository: an upsert keyed by bladeId, as the specification describes it.
CommentsSyncFromBlade(tbl, args) ==
    IF ~args.present \/ args.bladeId = Undefined \/ args.title = Undefined
       \/ args.email # Undefined \/ args.name # Undefined
    THEN Thrown(tbl)
    ELSE LET existing == Rows(tbl, args.bladeId)
         IN IF existing # {}
            THEN Done([tbl EXCEPT ![First(existing)].title = args.title])
            ELSE Done(Append(tbl, Doc(args.bladeId, Undefined, Undefined, args.title)))

\* <model>:deleteByBladeId is called by the router but defined nowhere in the
\* repository: an idempotent delete keyed by bladeId, as the specification
\* describes it.
DeleteByBladeId(tbl, bladeId) ==
    Done(Without(tbl, Rows(tbl, bladeId)))

SyncFromBlade(table, tbl, args) ==
    CASE table = "users" -> UsersSyncFromBlade(tbl, args)
      [] table = "posts" -> PostsSyncFromBlade(tbl, args)
      [] OTHER -> CommentsSyncFromBlade(tbl, args)

-----------------------------------------------------------------------------
(* The Convex router: POST /convex/sync and POST /convex/sync/batch.       *)

\* The gate without its presence test (syncSecret !== process.env.SYNC_SECRET
\* alone): an absent header equals an unset secret.
AuthOkWithoutPresence(hdr, secret) ==
    hdr = secret

\* The secret check of the router: !syncSecret || syncSecret !== SYNC_SECRET
\* answers 401.
AuthOk(hdr, secret) ==
    Truthy(hdr) /\ hdr = secret

\* Step 3 of the single endpoint: !model || !operation || !hiveId.
RequiredPresent(r) ==
    Truthy(r.model) /\ Truthy(r.operation) /\ Truthy(r.id)

\* The model's case of the switch: one mutation call, or a fall through to the
\* echoing success response when the operation matches no branch.
ConvexRoute(d, r) ==
    IF r.operation \in {"add", "set"}
    THEN LET result == SyncFromBlade(r.model, d[r.model], r.data)
             calls == << <<r.model, "syncFromBlade">> >>
         IN IF result.ok
            THEN Outcome([d EXCEPT ![r.model] = result.tbl],
                         Bare(200, "Synced", Undefined, calls))
            ELSE Outcome(d, Response(500, "Error", "Sync failed", r, calls))
    ELSE IF r.operation = "remove"
    THEN LET result == DeleteByBladeId(d[r.model], r.id)
             calls == << <<r.model, "deleteByBladeId">> >>
         IN Outcome([d EXCEPT ![r.model] = result.tbl],
                    Bare(200, "Deleted", Undefined, calls))
    ELSE Outcome(d, Response(200, "Echo", Undefined, r, << >>))

\* app.post('/convex/sync').  The log line evaluates hiveId?.substring(0, 10)
\* before the required fields are checked and outside the try block.
ConvexSync(secret, d, r) ==
    IF ~AuthOk(r.hdr, secret)
    THEN Outcome(d, Bare(401, "Unauthorized", "Unauthorized", << >>))
    ELSE IF r.id = NonStr
    THEN Outcome(d, Uncaught(<< >>))
    ELSE IF ~RequiredPresent(r)
    THEN Outcome(d, Bare(400, "MissingFields", "Missing required fields", << >>))
    ELSE IF r.model \in Tables
    THEN ConvexRoute(d, r)
    ELSE Outcome(d, Bare(400, "UnknownModel", r.model, << >>))

\* A batch entry {data, recordId}: ok = FALSE is an entry that is not an
\* object (null).
Entry(data, id) ==
    [ok |-> TRUE, data |-> data, id |-> id]

Malformed ==
    [ok |-> FALSE, data |-> NoData, id |-> Undefined]

\* What became of the entries of a batch: the store left, the positions whose
\* promise is fulfilled, those whose promise is rejected, the calls made.
Settled(d, fulfilled, rejected, calls) ==
    [db |-> d, fulfilled |-> fulfilled, rejected |-> rejected, calls |-> calls]

\* One callback of records.map in the Convex batch endpoint: users and posts
\* call syncFromBlade with record.data whatever the operation; any other model
\* throws; reading record.data of a malformed entry throws.
ConvexBatchEntry(d, model, entry, i) ==
    IF model \notin {"users", "posts"} \/ ~entry.ok
    THEN Settled(d, {}, {i}, << >>)
    ELSE LET result == SyncFromBlade(model, d[model], entry.data)
             calls == << <<model, "syncFromBlade">> >>
         IN IF result.ok
            THEN Settled([d EXCEPT ![model] = result.tbl], {i}, {}, calls)
            ELSE Settled(d, {}, {i}, calls)

RECURSIVE ConvexBatchApply(_, _, _, _)
\* The entries at the positions listed in ord, applied in that order.
ConvexBatchApply(d, model, records, ord) ==
    IF ord = << >>
    THEN Settled(d, {}, {}, << >>)
    ELSE LET one == ConvexBatchEntry(d, model, records[Head(ord)], Head(ord))
             rest == ConvexBatchApply(one.db, model, records, Tail(ord))
         IN Settled(rest.db, one.fulfilled \cup rest.fulfilled,
                    one.rejected \cup rest.rejected, one.calls \o rest.calls)

\* app.post('/convex/sync/batch').  records.length is read outside the try
\* block.  The mutations of the entries are in flight together; ord is the
\* order in which the store applies them.
ConvexSyncBatch(secret, d, r, ord) ==
    IF ~AuthOk(r.hdr, secret)
    THEN Outcome(d, Bare(401, "Unauthorized", "Unauthorized", << >>))
    ELSE IF ~r.hasRecords
    THEN Outcome(d, Uncaught(<< >>))
    ELSE LET results == ConvexBatchApply(d, r.model, r.records, ord)
             successful == Cardinality(results.fulfilled)
             failed == Cardinality(results.rejected)
         IN Outcome(results.db,
                    BatchResponse(successful, failed, Len(r.records), results.calls))

-----------------------------------------------------------------------------
(* The database client of the guides: upsert / delete on the users table,  *)
(* with the unique columns of the guides' schema (bladeId, email).         *)

\* Whether row doc can stand at position i of tbl: no other row has its
\* bladeId or its email.
Unique(tbl, i, doc) ==
    \A j \in 1..Len(tbl) :
        j # i => tbl[j].bladeId # doc.bladeId /\ tbl[j].email # doc.email

\* The fields of data that are set overwrite those of doc.
Merge(doc, data) ==
    [bladeId |-> IF data.bladeId # Undefined THEN data.bladeId ELSE doc.bladeId,
     email |-> IF data.email # Undefined THEN data.email ELSE doc.email,
     name |-> IF data.name # Undefined THEN data.name ELSE doc.name,
     title |-> doc.title]

\* db.users.upsert({ where: { bladeId: recordId }, update: data,
\*                   create: { ...data, bladeId: recordId } }).
\* The arguments are rejected when data is missing, names a column the table
\* does not have, or leaves the required email out of `create`, and when
\* recordId is not a string; a unique column that would repeat is an error.
UsersUpsert(tbl, recordId, data) ==
    IF ~data.present \/ data.title # Undefined \/ data.email = Undefined
       \/ recordId = NonStr
    THEN Thrown(tbl)
    ELSE LET existing == Rows(tbl, recordId)
         IN IF existing # {}
            THEN LET i == First(existing)
                     doc == Merge(tbl[i], data)
                 IN IF Unique(tbl, i, doc) THEN Done([tbl EXCEPT ![i] = doc])
                    ELSE Thrown(tbl)
            ELSE LET doc == Doc(recordId, data.email, data.name, Undefined)
                 IN IF Unique(tbl, 0, doc) THEN Done(Append(tbl, doc))
                    ELSE Thrown(tbl)

\* db.users.delete({ where: { bladeId: recordId } }): the row must exist.
UsersDelete(tbl, recordId) ==
    IF Rows(tbl, recordId) = {} THEN Thrown(tbl)
    ELSE Done(Without(tbl, Rows(tbl, recordId)))

\* handleUserSync with a create/update case that reports success and writes
\* nothing.
HandleUserSyncDroppingWrites(tbl, operation, data, recordId) ==
    IF operation \in {"create", "update"}
    THEN [result |-> Done(tbl), calls |-> << <<"users", "upsert">> >>]
    ELSE IF operation = "delete"
    THEN [result |-> UsersDelete(tbl, recordId),
          calls |-> << <<"users", "delete">> >>]
    ELSE [result |-> Thrown(tbl), calls |-> << >>]

\* handleUserSync with a delete case that reports success and keeps the row.
HandleUserSyncKeepingRow(tbl, operation, data, recordId) ==
    IF operation \in {"create", "update"}
    THEN [result |-> UsersUpsert(tbl, recordId, data),
          calls |-> << <<"users", "upsert">> >>]
    ELSE IF operation = "delete"
    THEN [result |-> Done(tbl), calls |-> << <<"users", "delete">> >>]
    ELSE [result |-> Thrown(tbl), calls |-> << >>]

\* handleUserSync: the outcome of the store call and the calls made; an
\* unknown operation throws without a call.
HandleUserSync(tbl, operation, data, recordId) ==
    IF operation \in {"create", "update"}
    THEN [result |-> UsersUpsert(tbl, recordId, data),
          calls |-> << <<"users", "upsert">> >>]
    ELSE IF operation = "delete"
    THEN [result |-> UsersDelete(tbl, recordId),
          calls |-> << <<"users", "delete">> >>]
    ELSE [result |-> Thrown(tbl), calls |-> << >>]

\* handlePostSync and handleCommentSync are empty functions in the guide.
HandleStubSync(tbl) ==
    [result |-> Done(tbl), calls |-> << >>]

HandleSync(d, model, operation, data, recordId) ==
    IF model = "users" THEN HandleUserSync(d[model], operation, data, recordId)
    ELSE HandleStubSync(d[model])

-----------------------------------------------------------------------------
(* The router of the complete guide: POST /sync and POST /sync/batch.      *)

\* app.post('/sync').  The log line evaluates new Date(timestamp).toISOString()
\* before the required fields are checked and outside the try block: it throws
\* a RangeError when the body carries no timestamp.
CompleteSync(secret, d, r) ==
    IF ~AuthOk(r.hdr, secret)
    THEN Outcome(d, Bare(401, "Unauthorized", "Unauthorized", << >>))
    ELSE IF r.ts = Undefined
    THEN Outcome(d, Uncaught(<< >>))
    ELSE IF ~RequiredPresent(r)
    THEN Outcome(d, Bare(400, "MissingFields", "Missing required fields", << >>))
    ELSE IF r.model \in Tables
    THEN LET h == HandleSync(d, r.model, r.operation, r.data, r.id)
         IN IF h.result.ok
            THEN Outcome([d EXCEPT ![r.model] = h.result.tbl],
                         Response(200, "Success", Undefined, r, h.calls))
            ELSE Outcome(d, Response(500, "Error", "Sync failed", r, h.calls))
    ELSE Outcome(d, Bare(400, "UnknownModel", r.model, << >>))

\* Whether the callback of records.map throws (synchronously) at entry i: the
\* default case of the switch, or reading record.data of a malformed entry.
MapThrows(model, records, i) ==
    model \notin {"users", "posts"} \/ ~records[i].ok

\* The entries whose handler was started before records.map threw, if it did.
Started(model, records) ==
    {i \in 1..Len(records) : \A j \in 1..i : ~MapThrows(model, records, j)}

CompleteBatchEntry(d, model, operation, entry, i) ==
    LET h == HandleSync(d, model, operation, entry.data, entry.id)
    IN IF h.result.ok
       THEN Settled([d EXCEPT ![model] = h.result.tbl], {i}, {}, h.calls)
       ELSE Settled(d, {}, {i}, h.calls)

RECURSIVE CompleteBatchApply(_, _, _, _, _)
CompleteBatchApply(d, model, operation, records, ord) ==
    IF ord = << >>
    THEN Settled(d, {}, {}, << >>)
    ELSE LET one == CompleteBatchEntry(d, model, operation, records[Head(ord)], Head(ord))
             rest == CompleteBatchApply(one.db, model, operation, records, Tail(ord))
         IN Settled(rest.db, one.fulfilled \cup rest.fulfilled,
                    one.rejected \cup rest.rejected, one.calls \o rest.calls)

\* app.post('/sync/batch').  The callback of records.map is not async: an
\* exception in it leaves records.map and reaches the catch block (500), while
\* the handlers already started go on; ord is the order in which the store
\* applies the started entries.
CompleteSyncBatch(secret, d, r, ord) ==
    IF ~AuthOk(r.hdr, secret)
    THEN Outcome(d, Bare(401, "Unauthorized", "Unauthorized", << >>))
    ELSE IF ~r.hasRecords
    THEN Outcome(d, Uncaught(<< >>))
    ELSE LET results == CompleteBatchApply(d, r.model, r.operation, r.records, ord)
         IN IF \E i \in 1..Len(r.records) : MapThrows(r.model, r.records, i)
            THEN Outcome(results.db, Bare(500, "BatchError", "error", results.calls))
            ELSE Outcome(results.db,
                         BatchResponse(Cardinality(results.fulfilled),
                                       Cardinality(results.rejected),
                                       Len(r.records), results.calls))

-----------------------------------------------------------------------------
(* The routers of the quick start.                                         *)

\* The secret check of the quick start: syncSecret !== SYNC_SECRET answers 401.
QuickAuthOk(hdr, secret) ==
    hdr = secret

\* yourDatabase.upsert(table, data) is a placeholder of the quick start: an
\* upsert keyed by the payload's identifier, as the specification describes it.
YourDatabaseUpsert(tbl, data) ==
    IF ~data.present \/ data.bladeId = Undefined
    THEN Thrown(tbl)
    ELSE LET existing == Rows(tbl, data.bladeId)
         IN IF existing # {}
            THEN Done([tbl EXCEPT ![First(existing)] = Merge(tbl[First(existing)], data)])
            ELSE Done(Append(tbl, Doc(data.bladeId, data.email, data.name, data.title)))

\* app.post('/sync') of the quick start: no required-field check; an unknown
\* model is logged and answered like a synced one.
QuickSync(secret, d, r) ==
    IF ~QuickAuthOk(r.hdr, secret)
    THEN Outcome(d, Bare(401, "Unauthorized", "Unauthorized", << >>))
    ELSE IF r.model \in {"users", "posts"}
    THEN LET result == YourDatabaseUpsert(d[r.model], r.data)
             calls == << <<r.model, "upsert">> >>
         IN IF result.ok
            THEN Outcome([d EXCEPT ![r.model] = result.tbl],
                         [Response(200, "Success", Undefined, r, calls)
                             EXCEPT !.id = Undefined])
            ELSE Outcome(d, Bare(500, "Error", "error", calls))
    ELSE Outcome(d, [Response(200, "Success", Undefined, r, << >>)
                        EXCEPT !.id = Undefined])

\* prisma.user.upsert({ where: { email }, update: { name },
\*                      create: { email, name, bladeId: data.id } }).
\* The payload's identifier is spelled data.id in the quick start.
QuickUsersUpsert(tbl, data) ==
    IF data.email = Undefined \/ data.bladeId = Undefined
    THEN Thrown(tbl)
    ELSE LET existing == {i \in 1..Len(tbl) : tbl[i].email = data.email}
         IN IF existing # {}
            THEN Done([tbl EXCEPT ![First(existing)].name =
                          IF data.name # Undefined THEN data.name ELSE @])
            ELSE LET doc == Doc(data.bladeId, data.email, data.name, Undefined)
                 IN IF Unique(tbl, 0, doc) THEN Done(Append(tbl, doc))
                    ELSE Thrown(tbl)

\* app.post('/sync') of the quick start's Prisma example: keyed by data.id,
\* no try block (an exception leaves the handler), only the users model.
QuickPrismaSync(secret, d, r) ==
    IF ~QuickAuthOk(r.hdr, secret)
    THEN Outcome(d, Bare(401, "Unauthorized", "Unauthorized", << >>))
    ELSE IF r.model = "users" /\ r.operation \in {"create", "update", "delete"}
    THEN IF ~r.data.present
         THEN Outcome(d, Uncaught(<< >>))
         ELSE LET result == IF r.operation = "delete"
                            THEN UsersDelete(d["users"], r.data.bladeId)
                            ELSE QuickUsersUpsert(d["users"], r.data)
                  calls == << <<"users", IF r.operation = "delete" THEN "delete"
                                         ELSE "upsert">> >>
              IN IF result.ok
                 THEN Outcome([d EXCEPT !["users"] = result.tbl],
                              Bare(200, "Success", Undefined, calls))
                 ELSE Outcome(d, Uncaught(calls))
    ELSE Outcome(d, Bare(200, "Success", Undefined, << >>))

-----------------------------------------------------------------------------
(* The requests explored.                                                  *)

Req(route, hdr, model, operation, id, data, ts) ==
    [route |-> route, hdr |-> hdr, model |-> model, operation |-> operation,
     id |-> id, data |-> data, ts |-> ts, hasRecords |-> FALSE, records |-> << >>]

\* A batch body; hasRecords = FALSE is a body without a records array.
BatchReq(route, hdr, model, operation, hasRecords, records) ==
    [route |-> route, hdr |-> hdr, model |-> model, operation |-> operation,
     id |-> Undefined, data |-> NoData, ts |-> Undefined,
     hasRecords |-> hasRecords, records |-> records]

HdrVals == {Undefined, Secret, "wrong"}
ModelVals == {Undefined, "widgets"} \cup Tables
ConvexOps == {Undefined, "add", "set", "remove", "create"}
GuideOps == {Undefined, "create", "update", "delete", "add"}
IdVals == {Undefined, "", NonStr} \cup Keys
TsVals == {Undefined, "1234567890"}
CoreData == {NoData, UserData("u1", "a@x.com", "A"), PostData("u1", "T")}

\* Bodies of single-message requests: every combination of model, operation
\* and identifier with a few payloads, and every payload with the users and
\* posts models.
Grid(route, hdrs, ops, ids, tss) ==
    {Req(route, h, m, o, i, x, t) :
        h \in hdrs, m \in ModelVals, o \in ops, i \in ids, x \in CoreData, t \in tss}

Payloads(route, ops, tss) ==
    {Req(route, Secret, m, o, i, x, t) :
        m \in {"users", "posts"}, o \in ops \ {Undefined}, i \in Keys,
        x \in DataVals, t \in tss}

SingleRequests(route, ops, tss) ==
    Grid(route, {Secret}, ops, IdVals, tss)
    \cup Grid(route, HdrVals, ops, {Undefined, "u1"}, tss)
    \cup Payloads(route, ops, tss)

BatchEntries ==
    {Malformed, Entry(NoData, "u1"), Entry(UserData("u1", "a@x.com", "A"), "u1"),
     Entry(UserData("u2", "b@x.com", "A"), "u2"), Entry(PostData("u1", "T"), "u1")}

\* Sequences over S of length at most n.
SeqUpTo(S, n) ==
    UNION {[1..k -> S] : k \in 0..n}

BatchRequests(route, ops) ==
    {BatchReq(route, Secret, m, o, TRUE, rs) :
        m \in ModelVals, o \in ops, rs \in SeqUpTo(BatchEntries, MaxBatch)}
    \cup {BatchReq(route, h, m, o, FALSE, << >>) :
        h \in HdrVals, m \in ModelVals, o \in ops}
    \cup {BatchReq(route, h, m, o, TRUE, rs) :
        h \in HdrVals, m \in {"users", "widgets"}, o \in ops,
        rs \in SeqUpTo({Malformed, Entry(UserData("u1", "a@x.com", "A"), "u1")}, 1)}

\* The orders in which the positions in S can be taken.
Perms(S) ==
    {p \in [1..Cardinality(S) -> S] : \A i, j \in 1..Cardinality(S) : i # j => p[i] # p[j]}

ConvexSyncRequests == SingleRequests("/convex/sync", ConvexOps, {Undefined})
ConvexBatchRequests == BatchRequests("/convex/sync/batch", {"add", "remove"})
CompleteSyncRequests == SingleRequests("/sync", GuideOps, TsVals)
CompleteBatchRequests == BatchRequests("/sync/batch", {"create", "delete", "add"})
QuickSyncRequests ==
    Grid("/sync", HdrVals, GuideOps, {Undefined, "u1"}, {Undefined})
QuickPrismaRequests ==
    Grid("/sync", HdrVals, GuideOps, {Undefined, "u1"}, {Undefined})
    \cup Payloads("/sync", GuideOps, {Undefined})

-----------------------------------------------------------------------------
(* The state machine.                                                      *)

\* The identifiers of the local accounts explored.
AccountIds == {"u1"}

\* A local account of the application; present = FALSE is no account.
NoAccount ==
    [present |-> FALSE, email |-> Undefined, name |-> Undefined]

Account(e, n) ==
    [present |-> TRUE, email |-> e, name |-> n]

\* What a call of a sync helper came to: whether it issued an HTTP request,
\* whether it logged the missing-secret warning, and how its promise settled
\* ("returned", "rejected", or "none" when no call has completed yet).
Completion(by, sent, warned, settled) ==
    [by |-> by, sent |-> sent, warned |-> warned, settled |-> settled]

NoCompletion ==
    Completion("none", FALSE, FALSE, "none")

\* A trigger invocation: the event, the records array it received, the
\* position of its loop, whether waitUntil is available, and its state
\* ("idle" when none has run, "running", "returned", "threw").
Run(event, records, i, w, state) ==
    [event |-> event, records |-> records, i |-> i, w |-> w, state |-> state]

NoRun ==
    Run("none", << >>, 0, FALSE, "idle")

\* A request handler of the Receiver: where it is, its request, its response.
Handler(stage, request, response) ==
    [stage |-> stage, request |-> request, resp |-> response]

HandlerIds == {1, 2}

NoHandlers ==
    [h \in HandlerIds |-> Handler("none", NoRequest, NoResponse)]

\* The Receiver alone: requests arrive from any client, no sync helper runs.
Init ==
    /\ deployment \in Deployments
    /\ env \in {Undefined, Secret}
    /\ db = EmptyDb
    /\ pc = "idle"
    /\ req = NoRequest
    /\ resp = NoResponse
    /\ before = EmptyDb
    /\ helper = "none"
    /\ accounts = [k \in AccountIds |-> NoAccount]
    /\ tasks = << >>
    /\ local = "idle"
    /\ done = NoCompletion
    /\ unsynced = FALSE
    /\ run = NoRun
    /\ helperCalls = << >>
    /\ handlers = NoHandlers

\* The request r is handled with outcome o and its response is ready.
Handled(r, o) ==
    /\ DocCount(o.db) <= MaxDocs
    /\ db' = o.db
    /\ resp' = o.resp
    /\ req' = r
    /\ before' = db
    /\ pc' = "responded"
    /\ UNCHANGED << deployment, env >>
    /\ UNCHANGED relay
    /\ UNCHANGED dispatcher
    /\ UNCHANGED concurrent

PostConvexSync ==
    /\ pc = "idle" /\ deployment = "convex"
    /\ \E r \in ConvexSyncRequests : Handled(r, ConvexSync(env, db, r))

PostConvexSyncBatch ==
    /\ pc = "idle" /\ deployment = "convex"
    /\ \E r \in ConvexBatchRequests : \E ord \in Perms(1..Len(r.records)) :
          Handled(r, ConvexSyncBatch(env, db, r, ord))

PostSync ==
    /\ pc = "idle" /\ deployment = "complete"
    /\ \E r \in CompleteSyncRequests : Handled(r, CompleteSync(env, db, r))

PostSyncBatch ==
    /\ pc = "idle" /\ deployment = "complete"
    /\ \E r \in CompleteBatchRequests : \E ord \in Perms(Started(r.model, r.records)) :
          Handled(r, CompleteSyncBatch(env, db, r, ord))

PostQuickSync ==
    /\ pc = "idle" /\ deployment = "quick"
    /\ \E r \in QuickSyncRequests : Handled(r, QuickSync(env, db, r))

PostQuickPrismaSync ==
    /\ pc = "idle" /\ deployment = "quickPrisma"
    /\ \E r \in QuickPrismaRequests : Handled(r, QuickPrismaSync(env, db, r))

\* The response is sent and the request is over.
Respond ==
    /\ pc = "responded"
    /\ pc' = "idle"
    /\ req' = NoRequest
    /\ resp' = NoResponse
    /\ before' = db
    /\ UNCHANGED << deployment, env, db >>
    /\ UNCHANGED relay
    /\ UNCHANGED dispatcher
    /\ UNCHANGED concurrent

Next ==
    \/ PostConvexSync
    \/ PostConvexSyncBatch
    \/ PostSync
    \/ PostSyncBatch
    \/ PostQuickSync
    \/ PostQuickPrismaSync
    \/ Respond

Spec == Init /\ [][Next]_vars

-----------------------------------------------------------------------------
(* Vocabulary of the properties.                                           *)

\* The request just handled carried the configured shared secret.
Authenticated ==
    req.hdr # Undefined /\ req.hdr = env

\* A single-message request / a batch request has just been handled by one of
\* the routers the deployments D name.
SingleHandled(D) ==
    pc = "responded" /\ deployment \in D /\ req.route \in {"/convex/sync", "/sync"}

BatchHandled(D) ==
    pc = "responded" /\ deployment \in D
    /\ req.route \in {"/convex/sync/batch", "/sync/batch"}

\* The spelling of the operations on the deployment's route.
WriteOps ==
    IF deployment = "convex" THEN {"add", "set"} ELSE {"create", "update"}

DeleteOp ==
    IF deployment = "convex" THEN "remove" ELSE "delete"

\* The record identifier of the request as the deployment's wire format
\* spells it (hiveId, recordId, or data.id in the quick start's Prisma example).
RecordId ==
    IF deployment = "quickPrisma" THEN req.data.bladeId ELSE req.id

\* The body is well typed: the identifier is a string or missing, and the
\* timestamp is there where the route reads it.
WellTyped ==
    req.id # NonStr /\ (deployment = "complete" => req.ts # Undefined)

\* The payload, when there is one, is the record's own: it carries no
\* identifier other than the message's, and a users payload names the user.
OwnPayload ==
    req.data.present
    => /\ req.data.bladeId \in {Undefined, req.id}
       /\ (req.model = "users" /\ req.operation \in WriteOps
               => req.data.name # Undefined)

\* The single-message handler of deployment dep.
Deliver(dep, secret, d, r) ==
    CASE dep = "convex" -> ConvexSync(secret, d, r)
      [] dep = "complete" -> CompleteSync(secret, d, r)
      [] dep = "quick" -> QuickSync(secret, d, r)
      [] OTHER -> QuickPrismaSync(secret, d, r)

-----------------------------------------------------------------------------
(* C1 *)

-----------------------------------------------------------------------------
(* C2 *)

\* C2 (required fields): an authenticated single-message request in which
\* model, operation or the record identifier is missing or empty is answered
\* 400 with no call to the target store.
RequiredFieldsRejected ==
    (SingleHandled({"convex", "complete"}) /\ Authenticated
        /\ (~Truthy(req.model) \/ ~Truthy(req.operation) \/ ~Truthy(req.id)))
    => (resp.status = 400 /\ resp.calls = << >>)

-----------------------------------------------------------------------------
(* C3 *)

\* C3 (model allow-list): an authenticated, well-typed single-message request
\* with all required fields present whose model is not users, posts or
\* comments is answered 400 with an error naming the model, with no call to
\* the target store.
UnknownModelRejected ==
    (SingleHandled({"convex", "complete", "quick"}) /\ Authenticated /\ WellTyped
        /\ Truthy(req.model) /\ Truthy(req.operation) /\ Truthy(req.id)
        /\ req.model \notin Tables)
    => (resp.status = 400 /\ resp.error = req.model /\ resp.calls = << >>)

-----------------------------------------------------------------------------
(* C4 *)

\* C4 (operation allow-list): an authenticated, well-typed single-message
\* request with an allow-listed model whose operation is not one of the three
\* the route accepts is answered 400, with no store mutation attempted.
UnknownOperationRejected ==
    (SingleHandled({"convex", "complete"}) /\ Authenticated /\ WellTyped
        /\ req.model \in Tables /\ Truthy(req.operation) /\ Truthy(req.id)
        /\ req.operation \notin WriteOps \cup {DeleteOp})
    => (resp.status = 400 /\ resp.calls = << >>)

-----------------------------------------------------------------------------
(* C5 *)

\* C5 (idempotence): when a valid message (allow-listed model, one of the
\* three operations, a string record identifier, the record's own payload)
\* has been delivered and answered with success, delivering it again is
\* answered with success and leaves the target store as the first delivery
\* left it.
Idempotent ==
    (SingleHandled({"convex", "complete"}) /\ Authenticated /\ WellTyped
        /\ req.model \in Tables /\ req.operation \in WriteOps \cup {DeleteOp}
        /\ req.id \in Keys /\ OwnPayload /\ resp.status = 200)
    => LET again == Deliver(deployment, env, db, req)
       IN again.resp.status = 200 /\ again.db = db

-----------------------------------------------------------------------------
(* C6 *)

\* C6 (key uniqueness): the target store holds at most one record per
\* (model, recordId).
KeyUnique ==
    deployment \in {"convex", "complete"}
    => \A m \in Tables : \A k \in Keys : Cardinality(Rows(db[m], k)) <= 1

-----------------------------------------------------------------------------
(* C7 *)

\* C7 (upsert semantics): a CREATE or UPDATE for the users model whose payload
\* carries the record's own identifier, answered with success, is an upsert
\* keyed by recordId: with no record of that key at the target, one record is
\* inserted under the key; otherwise no record is added and the record of
\* that key is the one changed.
UpsertByRecordId ==
    (SingleHandled({"convex", "complete"}) /\ Authenticated /\ WellTyped
        /\ req.model = "users" /\ req.operation \in WriteOps /\ req.id \in Keys
        /\ req.data.present /\ req.data.bladeId = req.id /\ resp.status = 200)
    => LET old == before["users"]
           new == db["users"]
       IN IF Rows(old, req.id) = {}
          THEN Len(new) = Len(old) + 1 /\ Cardinality(Rows(new, req.id)) = 1
          ELSE /\ Len(new) = Len(old)
               /\ \A i \in 1..Len(old) : old[i].bladeId # req.id => new[i] = old[i]

-----------------------------------------------------------------------------
(* C8 *)

\* C8 (delete of an unknown key): an authenticated, well-typed DELETE for an
\* allow-listed model and a recordId with no record at the target is answered
\* with success and leaves the target store unchanged.
DeleteUnknownSucceeds ==
    (SingleHandled({"convex", "complete"}) /\ Authenticated /\ WellTyped
        /\ req.model \in Tables /\ req.operation = DeleteOp /\ req.id \in Keys
        /\ Rows(before[req.model], req.id) = {})
    => (resp.status = 200 /\ db = before)

-----------------------------------------------------------------------------
(* C9 *)

-----------------------------------------------------------------------------
(* C10 *)

\* C10 (batch accounting): an authenticated batch request for an allow-listed
\* model with N entries, malformed ones included, is answered 200 with
\* successful + failed = total = N.
BatchAccounting ==
    (BatchHandled({"convex", "complete"}) /\ Authenticated /\ req.hasRecords
        /\ req.model \in Tables)
    => (resp.status = 200 /\ resp.total = Len(req.records)
        /\ resp.successful + resp.failed = resp.total)

-----------------------------------------------------------------------------
(* C11 *)

\* The positions of the batch whose entry is an object.
WellFormedEntries ==
    {i \in 1..Len(req.records) : req.records[i].ok}

\* C11 (batch partial-failure isolation): in an authenticated users batch
\* with at least one well-formed entry, every well-formed entry is attempted
\* against the target store whatever the other entries are, and the batch is
\* answered 200.
BatchIsolation ==
    (BatchHandled({"convex", "complete"}) /\ Authenticated /\ req.hasRecords
        /\ req.model = "users" /\ WellFormedEntries # {}
        /\ (deployment = "complete" => req.operation \in {"create", "update", "delete"}))
    => (resp.status = 200 /\ Len(resp.calls) = Cardinality(WellFormedEntries))

-----------------------------------------------------------------------------
(* C15, C16 *)

\* The request just handled passed the secret check and the validation and
\* names an allow-listed model: its handler went on to the store.
ReachedStore ==
    /\ Authenticated /\ WellTyped
    /\ Truthy(req.model) /\ Truthy(req.operation) /\ Truthy(req.id)
    /\ req.model \in Tables

\* The store operation of the request, as it runs on the store the request
\* found: the outcome of the call and the calls made.
StoreOperation ==
    IF deployment = "convex"
    THEN IF req.operation = "remove"
         THEN [result |-> DeleteByBladeId(before[req.model], req.id),
               calls |-> << <<req.model, "deleteByBladeId">> >>]
         ELSE [result |-> SyncFromBlade(req.model, before[req.model], req.data),
               calls |-> << <<req.model, "syncFromBlade">> >>]
    ELSE HandleSync(before, req.model, req.operation, req.data, req.id)

\* C15 (success response): an authenticated valid single-message request (one
\* of the route's three operations) whose store operation completes is
\* answered 200 with the request's own model, operation and record identifier.
SuccessEchoes ==
    (SingleHandled({"convex", "complete"}) /\ ReachedStore
        /\ req.operation \in WriteOps \cup {DeleteOp}
        /\ StoreOperation.result.ok)
    => (resp.status = 200 /\ resp.model = req.model
        /\ resp.operation = req.operation /\ resp.id = req.id)

-----------------------------------------------------------------------------
(* C17 *)

\* C17 (request isolation): every request to the single or batch endpoint is
\* answered by the endpoint's own code with status 200, 400, 401 or 500; no
\* exception leaves the handler.
NoEscape ==
    (pc = "responded" /\ deployment \in {"convex", "complete"})
    => (resp.kind # "Uncaught" /\ resp.status \in {200, 400, 401, 500})

-----------------------------------------------------------------------------
(* C18 *)

\* C18 (timestamp is advisory): the response status and the target store an
\* authenticated single-message request leaves are the same for every value
\* of timestamp, the absent one included.
TimestampAdvisory ==
    (SingleHandled({"convex", "complete"}) /\ Authenticated)
    => \A ts \in TsVals :
         LET other == Deliver(deployment, env, before, [req EXCEPT !.ts = ts])
         IN other.resp.status = resp.status /\ other.db = db

-----------------------------------------------------------------------------
(* The Dispatcher: the sync helpers, the triggers that call them, and the  *)
(* requests they have in flight towards the Receiver.                      *)

\* The most requests in flight at once.
MaxInFlight == 2

Helpers ==
    {"syncToDatabase", "syncToConvex", "syncToConvexReadme", "syncToCustomAPI"}

\* The router that serves the URL a helper posts to.
ReceiverOf(h) ==
    IF h = "syncToDatabase" THEN "complete" ELSE "convex"

\* Date.now() in the body of a request.
Now == "1234567890"

\* What becomes of the outbound call when the Receiver does not answer it
\* itself: fetch rejects, a non-2xx answer, a 2xx answer that is not JSON.
NetOutcomes == {"networkError", "notOk", "garbled"}

\* A call of a helper up to its first await: the request it issues, or how it
\* ended without one.
Issued(request) ==
    [sent |-> TRUE, warned |-> FALSE, settled |-> "pending", request |-> request]

Ended(warned, settled) ==
    [sent |-> FALSE, warned |-> warned, settled |-> settled, request |-> NoRequest]

\* The X-Sync-Secret header fetch sends for a header value that is undefined.
HeaderOf(secret) ==
    IF secret = Undefined THEN "'undefined'" ELSE secret

\* syncToDatabase of the complete guide.
SyncToDatabase(secret, model, operation, data, recordId) ==
    IF ~Truthy(secret) THEN Ended(TRUE, "returned")
    ELSE IF ~Truthy(model) \/ ~Truthy(operation) \/ ~Truthy(recordId)
    THEN Ended(FALSE, "returned")
    ELSE Issued(Req("/sync", secret, model, operation, recordId, data, Now))

\* batchSyncToDatabase of the complete guide.
BatchSyncToDatabase(secret, model, operation, records) ==
    IF ~Truthy(secret) THEN Ended(TRUE, "returned")
    ELSE Issued(BatchReq("/sync/batch", secret, model, operation, TRUE, records))

\* syncToConvex of the Convex reference.
SyncToConvex(secret, model, operation, data, hiveId) ==
    IF ~Truthy(secret) THEN Ended(TRUE, "returned")
    ELSE Issued(Req("/convex/sync", secret, model, operation, hiveId, data, Undefined))

\* syncToConvex of the README: no secret check, no try block.
SyncToConvexReadme(secret, model, operation, data, hiveId) ==
    Issued(Req("/convex/sync", HeaderOf(secret), model, operation, hiveId, data, Undefined))

\* syncToCustomAPI: the switch on the operation is before the try block; the
\* request goes to an API outside this system.
SyncToCustomAPI(apiKey, model, operation, data, recordId) ==
    IF operation \notin {"create", "update", "delete"}
    THEN Ended(FALSE, "rejected")
    ELSE Issued(Req("external", HeaderOf(apiKey), model, operation, recordId, data, Undefined))

Dispatch(h, secret, model, operation, data, id) ==
    CASE h = "syncToDatabase" -> SyncToDatabase(secret, model, operation, data, id)
      [] h = "syncToConvex" -> SyncToConvex(secret, model, operation, data, id)
      [] h = "syncToConvexReadme" -> SyncToConvexReadme(secret, model, operation, data, id)
      [] OTHER -> SyncToCustomAPI(secret, model, operation, data, id)

\* How the helper's promise settles once the outbound call has the outcome
\* "ok" (2xx with a JSON body) or one of NetOutcomes.
Settle(h, outcome) ==
    IF h = "syncToConvexReadme" /\ outcome = "networkError"
    THEN "rejected"
    ELSE "returned"

\* The helper calls a trigger hands to waitUntil for one record of the event
\* ("add", "set", "remove"): the guide's account triggers, the Convex
\* reference's (followingAdd and followingSet only), the README's and the
\* custom API's (followingAdd only).
TriggerCalls(h, secret, event, k, acct) ==
    CASE h = "syncToDatabase" ->
            IF event = "remove"
            THEN << SyncToDatabase(secret, "users", "delete",
                                   UserData(k, Undefined, Undefined), k) >>
            ELSE IF ~Truthy(acct.email) THEN << >>
            ELSE << SyncToDatabase(secret, "users",
                                   IF event = "add" THEN "create" ELSE "update",
                                   UserData(k, acct.email, acct.name), k) >>
      [] h = "syncToConvex" ->
            IF event = "remove" THEN << >>
            ELSE << SyncToConvex(secret, "users", event,
                                 UserData(k, acct.email, acct.name), k) >>
      [] h = "syncToConvexReadme" ->
            IF event # "add" THEN << >>
            ELSE << SyncToConvexReadme(secret, "users", "add",
                                       UserData(Undefined, acct.email, acct.name), k) >>
      [] OTHER ->
            IF event # "add" THEN << >>
            ELSE << SyncToCustomAPI(secret, "users", "create",
                                    UserData(Undefined, acct.email, acct.name), k) >>

\* A trigger that awaits its sync calls (await syncToDatabase(...)) waits for
\* every request in flight.
AwaitingAll(ts) ==
    DOMAIN ts

\* The sync calls a trigger handler waits for before it returns: the calls
\* are handed to waitUntil and never awaited.
Awaiting(ts) ==
    {}

\* A handled request that stays in flight: s with its i-th element kept.
KeepInFlight(s, i) ==
    s

\* s without its i-th element.
Remove(s, i) ==
    SubSeq(s, 1, i - 1) \o SubSeq(s, i + 1, Len(s))

\* The records of a batch built from the local accounts.
AccountEntries(accts) ==
    LET entry(k) == Entry(UserData(k, accts[k].email, accts[k].name), k)
    IN IF accts["u1"].present THEN << entry("u1") >> ELSE << >>

-----------------------------------------------------------------------------
(* The relay: local mutations fire triggers, triggers start sync calls,    *)
(* the calls' requests reach the Receiver (or fail on the way).            *)

RelayInit ==
    /\ helper \in Helpers
    /\ deployment = ReceiverOf(helper)
    /\ env \in {Undefined, Secret}
    /\ db = EmptyDb
    /\ pc = "idle"
    /\ req = NoRequest
    /\ resp = NoResponse
    /\ before = EmptyDb
    /\ accounts = [k \in AccountIds |-> NoAccount]
    /\ tasks = << >>
    /\ local = "idle"
    /\ done = NoCompletion
    /\ unsynced = FALSE
    /\ run = NoRun
    /\ helperCalls = << >>
    /\ handlers = NoHandlers

\* The helper calls of a trigger are started: the requests issued are in
\* flight, a call that ended without a request is over.
StartCalls(calls) ==
    LET issued == SelectSeq(calls, LAMBDA c : c.sent)
    IN /\ Len(tasks) + Len(issued) <= MaxInFlight
       /\ tasks' = tasks \o [i \in 1..Len(issued) |-> issued[i].request]
       /\ done' = IF calls # << >> /\ ~calls[1].sent
                  THEN Completion(helper, FALSE, calls[1].warned, calls[1].settled)
                  ELSE done
       /\ unsynced' = (unsynced \/ calls = << >> \/ \E i \in 1..Len(calls) : ~calls[i].sent)

\* A local mutation commits and its following* trigger runs; waitUntil may be
\* unavailable, in which case the trigger returns at once.
Mutated(accts, event, k, w) ==
    /\ local = "idle"
    /\ accounts' = accts
    /\ local' = "trigger"
    /\ StartCalls(IF w THEN TriggerCalls(helper, env, event, k, accts[k]) ELSE << >>)
    /\ UNCHANGED << helper, receiver, dispatcher, concurrent >>

EmailFree(k, e) ==
    \A j \in AccountIds \ {k} : accounts[j].email # e

AddAccount ==
    \E k \in AccountIds, e \in Emails, n \in Names, w \in BOOLEAN :
        /\ ~accounts[k].present /\ EmailFree(k, e)
        /\ (helper = "syncToConvexReadme" => w)
        /\ Mutated([accounts EXCEPT ![k] = Account(e, n)], "add", k, w)

SetAccount ==
    \E k \in AccountIds, e \in Emails, n \in Names, w \in BOOLEAN :
        /\ accounts[k].present /\ EmailFree(k, e)
        /\ Account(e, n) # accounts[k]
        /\ Mutated([accounts EXCEPT ![k] = Account(e, n)], "set", k, w)

\* followingRemove receives the record that was removed.
RemoveAccount ==
    \E k \in AccountIds, w \in BOOLEAN :
        /\ accounts[k].present
        /\ local = "idle"
        /\ accounts' = [accounts EXCEPT ![k] = NoAccount]
        /\ local' = "trigger"
        /\ StartCalls(IF w THEN TriggerCalls(helper, env, "remove", k, accounts[k])
                      ELSE << >>)
        /\ UNCHANGED << helper, receiver, dispatcher, concurrent >>

\* The trigger handler returns and the response to the mutation is sent.
TriggerReturn ==
    /\ local = "trigger"
    /\ Awaiting(tasks) = {}
    /\ local' = "idle"
    /\ UNCHANGED << helper, accounts, tasks, done, unsynced, receiver, dispatcher, concurrent >>

\* Application code calls batchSyncToDatabase with the local accounts.
BatchSync ==
    /\ helper = "syncToDatabase"
    /\ local = "idle"
    /\ \E o \in {"create"} :
          LET c == BatchSyncToDatabase(env, "users", o, AccountEntries(accounts))
          IN /\ Len(tasks) + (IF c.sent THEN 1 ELSE 0) <= MaxInFlight
             /\ tasks' = IF c.sent THEN Append(tasks, c.request) ELSE tasks
             /\ done' = IF c.sent THEN done
                        ELSE Completion("batchSyncToDatabase", FALSE, c.warned, c.settled)
    /\ UNCHANGED << helper, accounts, local, unsynced, receiver, dispatcher, concurrent >>

\* Application code calls the helper directly with any arguments, before any
\* account exists; the outbound call, if one is made, has any outcome.
DirectCall ==
    /\ local = "idle" /\ tasks = << >> /\ pc = "idle" /\ db = EmptyDb
    /\ \A k \in AccountIds : ~accounts[k].present
    /\ \E m \in {Undefined, "users", "widgets"}, o \in {Undefined, "create", "add"},
          i \in {Undefined, "u1"}, x \in {NoData, UserData("u1", "a@x.com", "A")},
          outcome \in NetOutcomes \cup {"ok"} :
          LET c == Dispatch(helper, env, m, o, x, i)
          IN done' = IF c.sent
                     THEN Completion(helper, TRUE, FALSE, Settle(helper, outcome))
                     ELSE Completion(helper, FALSE, c.warned, c.settled)
    /\ UNCHANGED << helper, accounts, tasks, local, unsynced, receiver, dispatcher, concurrent >>

\* The Receiver's handling of a request in flight.
Receive(r, ord) ==
    CASE r.route = "/sync/batch" -> CompleteSyncBatch(env, db, r, ord)
      [] r.route = "/convex/sync/batch" -> ConvexSyncBatch(env, db, r, ord)
      [] OTHER -> Deliver(deployment, env, db, r)

\* A request in flight reaches the Receiver, which handles it; the helper
\* reads the answer.
DeliverTask ==
    /\ pc = "idle"
    /\ \E i \in 1..Len(tasks) :
          /\ tasks[i].route # "external"
          /\ \E ord \in Perms(IF tasks[i].route = "/sync/batch"
                              THEN Started(tasks[i].model, tasks[i].records)
                              ELSE 1..Len(tasks[i].records)) :
                LET o == Receive(tasks[i], ord)
                    by == IF tasks[i].hasRecords THEN "batchSyncToDatabase" ELSE helper
                IN /\ DocCount(o.db) <= MaxDocs
                   /\ db' = o.db
                   /\ resp' = o.resp
                   /\ req' = tasks[i]
                   /\ before' = db
                   /\ pc' = "responded"
                   /\ done' = Completion(by, TRUE, FALSE,
                                         Settle(by, IF o.resp.status = 200
                                                    THEN "ok" ELSE "notOk"))
                   /\ unsynced' = (unsynced \/ o.resp.status # 200)
          /\ tasks' = Remove(tasks, i)
    /\ UNCHANGED << helper, accounts, local, deployment, env, dispatcher, concurrent >>

\* The outbound call of a request in flight ends without the Receiver
\* handling it (an external API may also answer it).
FailTask ==
    /\ \E i \in 1..Len(tasks) :
          \E outcome \in IF tasks[i].route = "external" THEN NetOutcomes \cup {"ok"}
                          ELSE {"networkError"} :
             LET by == IF tasks[i].hasRecords THEN "batchSyncToDatabase" ELSE helper
             IN /\ tasks' = Remove(tasks, i)
                /\ done' = Completion(by, TRUE, FALSE, Settle(by, outcome))
                /\ unsynced' = (unsynced \/ outcome # "ok")
    /\ UNCHANGED << helper, accounts, local, receiver, dispatcher, concurrent >>

RelayNext ==
    \/ AddAccount
    \/ SetAccount
    \/ RemoveAccount
    \/ TriggerReturn
    \/ BatchSync
    \/ DirectCall
    \/ DeliverTask
    \/ FailTask
    \/ Respond

Relay == RelayInit /\ [][RelayNext]_vars

-----------------------------------------------------------------------------
(* C12, C13 *)

\* C12 (the Dispatcher never throws): whatever the arguments and whatever the
\* outcome of the outbound call, a call of a sync helper returns normally; its
\* promise is never rejected.
NeverThrows ==
    done.settled # "rejected"

\* C13 (missing configuration): with no shared secret configured, a call of
\* syncToDatabase, batchSyncToDatabase or the README's syncToConvex issues no
\* HTTP request, logs the warning and returns.
SkipsWithoutSecret ==
    (env = Undefined /\ helper \in {"syncToDatabase", "syncToConvexReadme"})
    => /\ tasks = << >>
       /\ done.settled # "none"
            => (~done.sent /\ done.warned /\ done.settled = "returned")

-----------------------------------------------------------------------------
(* C14 *)

\* C14 (fire and forget): while a following* trigger handler runs it can
\* return, and the response to the mutation be sent, whatever the state of the
\* sync calls it handed to waitUntil.
FireAndForget ==
    local = "trigger" => ENABLED TriggerReturn

\* The trigger has returned and the mutation is answered while the request of
\* its sync call is still in flight.
FireAndForgetWitness ==
    /\ local = "idle"
    /\ \E k \in AccountIds : accounts[k].present
    /\ Len(tasks) = 1 /\ tasks[1].operation \in {"create", "add"}
    /\ db = EmptyDb /\ done.settled = "none"

-----------------------------------------------------------------------------
(* C19, C20 *)

\* The Receiver has just answered 200 to a single-message request that a
\* trigger of the guide or of the Convex reference dispatched.
Synced(ops) ==
    /\ pc = "responded" /\ helper \in {"syncToDatabase", "syncToConvex"}
    /\ ~req.hasRecords /\ req.operation \in ops
    /\ resp.status = 200

\* C19 (create is synced): once the message of an account's creation has been
\* delivered and answered with success, the target store holds a users record
\* whose bladeId is the account's id and whose email is the account's email.
CreateSynced ==
    Synced({"create", "add"})
    => \E i \in Rows(db["users"], req.id) : db["users"][i].email = req.data.email

\* The create message of account u1 has been applied while the account is
\* still as it was created.
CreateSyncedWitness ==
    /\ Synced({"create"})
    /\ accounts[req.id].present /\ accounts[req.id].email = req.data.email
    /\ Rows(before["users"], req.id) = {}
    /\ \E i \in Rows(db["users"], req.id) : db["users"][i].email = accounts[req.id].email

\* C20 (update is synced): once the message of an update of an already-synced
\* account has been delivered and answered with success, the target record
\* with the account's bladeId carries the name of the message.
UpdateSynced ==
    (Synced({"update", "set"}) /\ Rows(before["users"], req.id) # {})
    => /\ Rows(db["users"], req.id) # {}
       /\ \A i \in Rows(db["users"], req.id) : db["users"][i].name = req.data.name

-----------------------------------------------------------------------------
(* C21 *)

\* The stages a single-message handler passes through, in the order of its
\* statements: the header check, c.req.json(), the log line, the required
\* fields check, the switch on the model, the store call, the response.
\* "crashed" is an exception outside the try block.
ConvexStages(secret, d, r) ==
    IF ~AuthOk(r.hdr, secret) THEN << "received", "rejected" >>
    ELSE IF r.id = NonStr THEN << "received", "authenticated", "parsed", "crashed" >>
    ELSE IF ~RequiredPresent(r) \/ r.model \notin Tables
    THEN << "received", "authenticated", "parsed", "rejected" >>
    ELSE IF r.operation \in {"add", "set", "remove"}
    THEN << "received", "authenticated", "parsed", "validated", "applied",
            IF ConvexRoute(d, r).resp.status = 200 THEN "succeeded" ELSE "failed" >>
    ELSE << "received", "authenticated", "parsed", "validated", "succeeded" >>

CompleteStages(secret, d, r) ==
    IF ~AuthOk(r.hdr, secret) THEN << "received", "rejected" >>
    ELSE IF r.ts = Undefined THEN << "received", "authenticated", "parsed", "crashed" >>
    ELSE IF ~RequiredPresent(r) \/ r.model \notin Tables
    THEN << "received", "authenticated", "parsed", "rejected" >>
    ELSE << "received", "authenticated", "parsed", "validated", "applied",
            IF HandleSync(d, r.model, r.operation, r.data, r.id).result.ok
            THEN "succeeded" ELSE "failed" >>

Stages(dep, secret, d, r) ==
    IF dep = "convex" THEN ConvexStages(secret, d, r) ELSE CompleteStages(secret, d, r)

\* The paths of the state machine received -> authenticated -> validated ->
\* applied -> {succeeded | failed}: the whole path, or the path cut short by a
\* rejection (401 before authenticated, 400 before validated).
LegalPaths ==
    {<< "received", "rejected" >>,
     << "received", "authenticated", "rejected" >>,
     << "received", "authenticated", "validated", "applied", "succeeded" >>,
     << "received", "authenticated", "validated", "applied", "failed" >>}

\* The position of stage x in path s (0 when s does not pass through x).
At(s, x) ==
    IF \E i \in 1..Len(s) : s[i] = x THEN CHOOSE i \in 1..Len(s) : s[i] = x ELSE 0

\* The path of the request just handled obeys the state machine, the body is
\* parsed and the store called only after authentication, the store is called
\* only after validation, and the response agrees with the path's end.
OrderedHandling ==
    LET s == Stages(deployment, env, before, req)
        path == SelectSeq(s, LAMBDA x : x # "parsed")
    IN /\ path \in LegalPaths
       /\ At(s, "parsed") # 0 => 0 < At(s, "authenticated") /\ At(s, "authenticated") < At(s, "parsed")
       /\ resp.calls # << >> =>
             /\ 0 < At(s, "authenticated") /\ At(s, "authenticated") < At(s, "applied")
             /\ 0 < At(s, "validated") /\ At(s, "validated") < At(s, "applied")
       /\ At(s, "succeeded") # 0 => resp.status = 200
       /\ At(s, "failed") # 0 => resp.status = 500
       /\ At(s, "rejected") # 0 => resp.status \in {400, 401}
       /\ At(s, "retrying") = 0

\* C21 (handling order): every single-message request with a well-typed body
\* passes through received, authenticated, validated, applied and then one of
\* succeeded or failed, in that order (or is rejected on the way); the body is
\* not parsed and no store call is made before authentication, no store call
\* is made before validation, and there is no retrying stage.
HandlingOrder ==
    (SingleHandled({"convex", "complete"}) /\ WellTyped) => OrderedHandling

-----------------------------------------------------------------------------
(* C23 *)

\* The rows of table model that belong to record k.
RecordOf(d, model, k) ==
    {d[model][i] : i \in Rows(d[model], k)}

\* The store d as it is when no message for record k of table model has been
\* applied to it.
Cleared(d, model, k) ==
    [d EXCEPT ![model] = Without(d[model], Rows(d[model], k))]

\* C23 (last applied wins): when a message for (model, recordId) has been
\* applied, the state of that record is the one this message produces on its
\* own, whatever message for the record was applied before it.
LastAppliedWins ==
    (/\ SingleHandled({"convex", "complete"}) /\ Authenticated /\ WellTyped
     /\ resp.status = 200
     /\ (deployment = "complete" => req.model = "users")
     /\ (deployment = "convex" => req.model = "posts")
     /\ req.operation \in WriteOps \cup {DeleteOp}
     /\ req.data.bladeId \in {Undefined, req.id} /\ req.data.email # Undefined)
    => LET alone == Deliver(deployment, env, Cleared(before, req.model, req.id), req)
       IN RecordOf(alone.db, req.model, req.id) = RecordOf(db, req.model, req.id)

-----------------------------------------------------------------------------
(* C27 *)

\* C27 (DELETE ignores the payload): an authenticated DELETE for an
\* allow-listed model has the same response and leaves the same target store
\* whatever its data field is, the absent one included.
DeleteIgnoresPayload ==
    (/\ SingleHandled({"convex", "complete", "quickPrisma"}) /\ Authenticated
     /\ WellTyped /\ req.model \in Tables /\ req.operation = DeleteOp)
    => \A x \in DataVals :
         LET other == Deliver(deployment, env, before, [req EXCEPT !.data = x])
         IN /\ [other.resp EXCEPT !.calls = << >>] = [resp EXCEPT !.calls = << >>]
            /\ other.db = db

-----------------------------------------------------------------------------
(* C28 *)

\* C28 (an absent header is always rejected): a request without the secret
\* header is answered 401 and changes nothing, whether or not the Receiver has
\* a shared secret configured.
AbsentHeaderRejected ==
    (pc = "responded" /\ deployment \in {"convex", "quick"} /\ req.hdr = Undefined)
    => (resp.status = 401 /\ db = before /\ resp.calls = << >>)

-----------------------------------------------------------------------------
(* C30 *)

-----------------------------------------------------------------------------
(* C29 *)

\* The values printed by the console calls of app.post('/convex/sync') while
\* it handles r: the warning of the secret check, the "Received sync request"
\* line (not reached when evaluating its argument throws), the unknown-model
\* warning, the "synced" line, the error line of the catch block.
ConvexSyncLog(secret, d, r) ==
    IF ~AuthOk(r.hdr, secret) THEN {"Unauthorized attempt"}
    ELSE IF r.id = NonStr THEN {}
    ELSE LET received == {"Received sync request", r.model, r.operation, r.id}
         IN IF ~RequiredPresent(r) THEN received
            ELSE IF r.model \notin Tables THEN received \cup {"Unknown model", r.model}
            ELSE LET o == ConvexRoute(d, r)
                 IN IF o.resp.status = 500
                    THEN received \cup {"Error", r.model, r.operation, r.id, o.resp.error}
                    ELSE IF o.resp.kind = "Synced" THEN received \cup {"synced", "result"}
                    ELSE received

\* The same for app.post('/sync') of the complete guide.
CompleteSyncLog(secret, d, r) ==
    IF ~AuthOk(r.hdr, secret) THEN {"Unauthorized sync attempt"}
    ELSE IF r.ts = Undefined THEN {}
    ELSE LET received == {"Received sync request", r.model, r.operation, r.id, r.ts}
         IN IF ~RequiredPresent(r) THEN received
            ELSE IF r.model \notin Tables THEN received \cup {"Unknown model", r.model}
            ELSE IF CompleteSync(secret, d, r).resp.status = 500
            THEN received \cup {"Error", r.model, r.operation, r.id, "Sync failed"}
            ELSE received

ReceiverLog(dep, secret, d, r) ==
    IF dep = "convex" THEN ConvexSyncLog(secret, d, r) ELSE CompleteSyncLog(secret, d, r)

\* A helper whose log lines print the request headers as well.
HelperLogWithHeaders(h, secret, r, response) ==
    {"Starting sync", r.model, r.operation, r.id, r.hdr, secret}

\* The values printed by the console calls of a sync helper whose request r
\* the Receiver answered with response: syncToDatabase logs the start, then
\* the parsed result or the failure with the response text; the syncToConvex
\* helpers log nothing once fetch has resolved.
HelperLog(h, secret, r, response) ==
    IF h = "syncToDatabase"
    THEN {"Starting sync", r.model, r.operation, r.id, "dataKeys"}
         \cup (IF response.status = 200 THEN {"Success"} ELSE {"Failed", "HTTP", response.error})
         \cup {response.model, response.operation, response.id}
    ELSE {}

\* C29 (secret confidentiality in logs): when a single-message request has
\* been handled, no log line of the Receiver and none of the Dispatcher
\* contains the configured secret or the secret header received; the same
\* holds for the Receiver's log had the request come with any other header.
SecretNotLogged ==
    (pc = "responded" /\ ~req.hasRecords)
    => /\ LET log == ReceiverLog(deployment, env, before, req)
                     \cup HelperLog(helper, env, req, resp)
          IN /\ env # Undefined => env \notin log
             /\ req.hdr # Undefined => req.hdr \notin log
       /\ \A h \in HdrVals \ {Undefined} :
             h \notin ReceiverLog(deployment, env, before, [req EXCEPT !.hdr = h])

\* A delivery with the secret configured has failed with 500 and both sides
\* have logged the failure with the record identifier.
SecretNotLoggedWitness ==
    /\ pc = "responded" /\ ~req.hasRecords /\ env = Secret /\ req.hdr = Secret
    /\ resp.status = 500
    /\ {"Error", req.id} \subseteq ReceiverLog(deployment, env, before, req)
    /\ {"Failed", req.id} \subseteq HelperLog(helper, env, req, resp)

-----------------------------------------------------------------------------
(* The Dispatcher looked at closely: one following* trigger invocation     *)
(* walking its records array, the calls of syncToDatabase it makes, and    *)
(* how each call ends.  The four documents give four variants of the       *)
(* helper and of the account triggers.                                     *)

\* Records in the array a trigger receives.
MaxRecords == 2

Variants == {"completeGuide", "reference", "quickStart", "quickReference", "readme"}

\* An element of the records array; ok = FALSE is an element that is not an
\* object (null).
NullRecord ==
    [ok |-> FALSE, id |-> Undefined, email |-> Undefined]

Record(id, email) ==
    [ok |-> TRUE, id |-> id, email |-> email]

RecordVals ==
    {NullRecord} \cup {Record(i, e) : i \in {Undefined, "u1", "u2"},
                                       e \in {Undefined, "a@x.com"}}

\* The following* handlers a variant defines.
Events(variant) ==
    IF variant = "quickReference" THEN {"add", "set"}
    ELSE IF variant = "readme" THEN {"add"}
    ELSE {"add", "set", "remove"}

OperationOf(event) ==
    CASE event = "add" -> "create"
      [] event = "set" -> "update"
      [] OTHER -> "delete"

\* What the body of the trigger's loop does with one record: "skip" it
\* (continue), "throw" (the exception ends the handler), or "call" the helper.
\* writeOk is the outcome of the local write the body awaits first, where it
\* has one (add.profile.with, remove.session).
Visit(variant, event, rec, writeOk) ==
    CASE variant = "completeGuide" ->
            IF ~rec.ok \/ ~Truthy(rec.id) THEN "skip"
            ELSE IF event \in {"add", "set"} /\ ~Truthy(rec.email) THEN "skip"
            ELSE "call"
      [] variant = "reference" ->
            IF ~rec.ok \/ ~Truthy(rec.id) THEN "skip"
            ELSE IF event = "add" /\ ~Truthy(rec.email) THEN "skip"
            ELSE IF event \in {"add", "remove"} /\ ~writeOk THEN "throw"
            ELSE "call"
      [] OTHER ->
            IF ~rec.ok THEN "throw" ELSE "call"

\* A call of a sync helper: its arguments, the request it issued (posts
\* counts the HTTP POSTs made for it), and once it is settled the outcome of
\* the outbound call, what it logged and what it returned.
HelperCall(by, model, operation, id, records, request, posts, state, outcome, logged, result) ==
    [by |-> by, model |-> model, operation |-> operation, id |-> id,
     records |-> records, request |-> request, posts |-> posts,
     state |-> state, outcome |-> outcome, logged |-> logged, result |-> result]

\* A helper that sends whatever it is given, without looking at its
\* arguments.
BeginWithoutValidation(variant, secret, model, operation, data, recordId) ==
    IF ~Truthy(secret)
    THEN HelperCall("syncToDatabase", model, operation, recordId, << >>, NoRequest, 0,
                    "settled", "none", "warning", Undefined)
    ELSE HelperCall("syncToDatabase", model, operation, recordId, << >>,
                    Req("/sync", secret, model, operation, recordId, data,
                        IF variant = "completeGuide" THEN Now ELSE Undefined),
                    1, "pending", "none", "none", Undefined)

\* The helper up to its first await.  The README's syncToConvex posts
\* whatever it is given; the other variants return after a warning when the
\* secret is not set; the complete guide's also checks its arguments.
Begin(variant, secret, model, operation, data, recordId) ==
    IF variant = "readme"
    THEN HelperCall("syncToConvex", model, operation, recordId, << >>,
                    Req("/convex/sync", secret, model, operation, recordId, data, Undefined),
                    1, "pending", "none", "none", Undefined)
    ELSE IF ~Truthy(secret)
    THEN HelperCall("syncToDatabase", model, operation, recordId, << >>, NoRequest, 0,
                    "settled", "none", "warning", Undefined)
    ELSE IF variant = "completeGuide"
            /\ (~Truthy(model) \/ ~Truthy(operation) \/ ~Truthy(recordId))
    THEN HelperCall("syncToDatabase", model, operation, recordId, << >>, NoRequest, 0,
                    "settled", "none", "error", Undefined)
    ELSE HelperCall("syncToDatabase", model, operation, recordId, << >>,
                    Req("/sync", secret, model, operation, recordId, data,
                        IF variant = "completeGuide" THEN Now ELSE Undefined),
                    1, "pending", "none", "none", Undefined)

\* batchSyncToDatabase up to its await.
BeginBatch(secret, model, operation, records) ==
    IF ~Truthy(secret)
    THEN HelperCall("batchSyncToDatabase", model, operation, Undefined, records,
                    NoRequest, 0, "settled", "none", "warning", Undefined)
    ELSE HelperCall("batchSyncToDatabase", model, operation, Undefined, records,
                    BatchReq("/sync/batch", secret, model, operation, TRUE, records),
                    1, "pending", "none", "none", Undefined)

\* The outcomes of the outbound call: the status of the Receiver's answer,
\* a 2xx answer whose body is not JSON, or fetch rejecting.
Outcomes == {"200", "400", "401", "500", "garbled", "networkError"}

\* A helper that sends the request again when the delivery failed.
FinishRetrying(variant, c, outcome) ==
    IF outcome = "200"
    THEN [c EXCEPT !.state = "settled", !.outcome = outcome, !.logged = "success",
                   !.result = "result"]
    ELSE [c EXCEPT !.posts = c.posts + 1, !.outcome = outcome, !.logged = "failure"]

\* The helper from the moment its fetch settles.  The complete guide's and
\* the quick start's test response.ok and parse the body inside try; the
\* reference's and the quick reference's only await fetch; batchSyncToDatabase
\* tests response.ok and returns nothing; the README's syncToConvex awaits
\* fetch outside any try and logs nothing (its promise rejects when fetch
\* does).
Finish(variant, c, outcome) ==
    LET settled(logged, result) ==
            [c EXCEPT !.state = "settled", !.outcome = outcome, !.logged = logged,
                      !.result = result]
    IN IF c.by = "syncToConvex" THEN settled("none", Undefined)
       ELSE IF outcome = "networkError" THEN settled("failure", Undefined)
       ELSE IF c.by = "batchSyncToDatabase"
       THEN IF outcome \in {"200", "garbled"} THEN settled("success", Undefined)
            ELSE settled("failure", Undefined)
       ELSE IF variant = "completeGuide"
       THEN IF outcome = "200" THEN settled("success", "result")
            ELSE settled("failure", Undefined)
       ELSE IF variant = "quickStart"
       THEN IF outcome = "200" THEN settled("none", "result")
            ELSE settled("failure", Undefined)
       ELSE settled("none", Undefined)

Pending ==
    \E i \in 1..Len(helperCalls) : helperCalls[i].state = "pending"

DispatcherInit ==
    /\ helper \in Variants
    /\ deployment = "complete"
    /\ env \in {Undefined, Secret}
    /\ db = EmptyDb
    /\ pc = "idle"
    /\ req = NoRequest
    /\ resp = NoResponse
    /\ before = EmptyDb
    /\ accounts = [k \in AccountIds |-> NoAccount]
    /\ tasks = << >>
    /\ local = "idle"
    /\ done = NoCompletion
    /\ unsynced = FALSE
    /\ run = NoRun
    /\ helperCalls = << >>
    /\ handlers = NoHandlers

\* A mutation has committed and its following* trigger is invoked with the
\* records; without waitUntil the handler returns at once, except the
\* README's, which does not test waitUntil.  A behaviour follows one
\* invocation (or one direct call) from its start to its end.
StartTrigger ==
    /\ run.state = "idle" /\ helperCalls = << >>
    /\ \E event \in Events(helper), records \in SeqUpTo(RecordVals, MaxRecords),
          w \in BOOLEAN :
          run' = Run(event, records, 1, w,
                     IF w \/ helper = "readme" THEN "running" ELSE "returned")
    /\ UNCHANGED << helperCalls, receiver, relay, concurrent >>

\* One turn of the trigger's for loop, or its end.  In waitUntil(helper(...))
\* the argument is evaluated, so the helper is called, before waitUntil is
\* applied: when waitUntil is undefined the TypeError comes after the call.
TriggerStep ==
    /\ run.state = "running"
    /\ IF run.i > Len(run.records)
       THEN /\ run' = [run EXCEPT !.state = "returned"]
            /\ UNCHANGED helperCalls
       ELSE \E writeOk \in BOOLEAN :
               LET rec == run.records[run.i]
                   v == Visit(helper, run.event, rec, writeOk)
               IN /\ run' = IF v = "throw" \/ (v = "call" /\ ~run.w)
                            THEN [run EXCEPT !.state = "threw"]
                            ELSE [run EXCEPT !.i = run.i + 1]
                  /\ helperCalls' =
                        IF v = "call"
                        THEN Append(helperCalls,
                                    Begin(helper, env, "users",
                                          IF helper = "readme" THEN run.event
                                          ELSE OperationOf(run.event),
                                          UserData(IF helper = "readme" THEN Undefined
                                                   ELSE rec.id, rec.email, Undefined),
                                          rec.id))
                        ELSE helperCalls
    /\ UNCHANGED << receiver, relay, concurrent >>

\* Application code calls batchSyncToDatabase with an array of records.
BatchCall ==
    /\ helper = "completeGuide"
    /\ run.state = "idle" /\ helperCalls = << >>
    /\ \E o \in {"create", "delete"}, records \in SeqUpTo(BatchEntries, MaxBatch) :
          helperCalls' = << BeginBatch(env, "users", o, records) >>
    /\ run' = NoRun
    /\ UNCHANGED << receiver, relay, concurrent >>

\* Application code calls the helper directly, with any arguments.
SingleCall ==
    /\ run.state = "idle" /\ helperCalls = << >>
    /\ \E m \in {Undefined, "", "users"}, o \in {Undefined, "", "create"},
          i \in {Undefined, "", "u1"} :
          helperCalls' = << Begin(helper, env, m, o, UserData(i, "a@x.com", "A"), i) >>
    /\ run' = NoRun
    /\ UNCHANGED << receiver, relay, concurrent >>

\* The outbound call of a pending helper call settles.
Answer ==
    /\ \E i \in 1..Len(helperCalls), outcome \in Outcomes :
          /\ helperCalls[i].state = "pending"
          /\ helperCalls' = [helperCalls EXCEPT ![i] = Finish(helper, helperCalls[i], outcome)]
    /\ UNCHANGED << run, receiver, relay, concurrent >>

DispatcherNext ==
    \/ StartTrigger
    \/ TriggerStep
    \/ BatchCall
    \/ SingleCall
    \/ Answer

Dispatcher == DispatcherInit /\ [][DispatcherNext]_vars

\* The trigger's own code keeps running; nothing obliges the network or the
\* Receiver to answer.
FairDispatcher == Dispatcher /\ WF_vars(TriggerStep)

-----------------------------------------------------------------------------
(* C22 *)

-----------------------------------------------------------------------------
(* C24 *)

\* A record the trigger is to sync: it has an id, and for an account
\* creation an email.
ValidRecord(event, rec) ==
    rec.ok /\ Truthy(rec.id) /\ (event = "add" => Truthy(rec.email))

\* C24 (dispatch order): when a following* trigger of the complete guide or
\* of the reference has ended (returned or thrown) with waitUntil available and the
\* secret configured, the requests issued are, in order, one for each valid
\* record of the records array in array order.
DispatchOrder ==
    (/\ helper \in {"completeGuide", "reference"}
     /\ run.state \in {"returned", "threw"} /\ run.w /\ env = Secret)
    => LET issued == SelectSeq(helperCalls, LAMBDA c : c.posts = 1)
           valid == SelectSeq(run.records, LAMBDA r : ValidRecord(run.event, r))
       IN [i \in 1..Len(issued) |-> issued[i].request.id]
            = [j \in 1..Len(valid) |-> valid[j].id]

-----------------------------------------------------------------------------
(* C25 *)

\* C25 (a non-success status is a delivery failure): a call of syncToDatabase
\* whose request the Receiver answered 400, 401 or 500 has logged a delivery
\* failure and has returned no result, in the complete guide's helper, the
\* reference's and the quick reference's.
NonSuccessIsFailure ==
    helper \in {"completeGuide", "reference", "quickReference"}
    => \A i \in 1..Len(helperCalls) :
          (helperCalls[i].state = "settled"
              /\ helperCalls[i].outcome \in {"400", "401", "500"})
          => (helperCalls[i].logged = "failure" /\ helperCalls[i].result = Undefined)

-----------------------------------------------------------------------------
(* C26 *)

\* C26 (bounded dispatch): every helper call that is pending is eventually
\* settled.
BoundedDispatch ==
    Pending ~> ~Pending

-----------------------------------------------------------------------------
(* C31 *)

\* The single-message request a client sends for one entry of the batch just
\* handled: same header, model and operation, the entry's data and recordId.
SingleOf(entry) ==
    Req(IF deployment = "convex" THEN "/convex/sync" ELSE "/sync",
        req.hdr, req.model, req.operation, entry.id, entry.data, "1234567890")

RECURSIVE Singles(_, _)
\* The entries at the positions listed in ord, each sent as its own request to
\* the single endpoint, one after the other: the store left, and whether every
\* one of them was answered 200.
Singles(d, ord) ==
    IF ord = << >>
    THEN [db |-> d, accepted |-> TRUE]
    ELSE LET one == Deliver(deployment, env, d, SingleOf(req.records[Head(ord)]))
             rest == Singles(one.db, Tail(ord))
         IN [db |-> rest.db,
             accepted |-> one.resp.status = 200 /\ rest.accepted]

\* The positions of the batch just handled, in the order of the list.
ListOrder ==
    [i \in 1..Len(req.records) |-> i]

\* C31 (batch equals singles): when the entries of an authenticated batch are
\* each accepted by the single endpoint with the batch's model and operation,
\* the batch leaves the target store as sending the entries one by one, in
\* some order, leaves it.
BatchEqualsSingles ==
    (BatchHandled({"convex", "complete"}) /\ Authenticated /\ req.hasRecords
        /\ (\A i \in 1..Len(req.records) : req.records[i].ok)
        /\ Singles(before, ListOrder).accepted)
    => \E ord \in Perms(1..Len(req.records)) : db = Singles(before, ord).db

-----------------------------------------------------------------------------
(* C32 *)

\* The target store agrees with the local store on account k: one users
\* record with the account's synced fields when the account exists locally,
\* none when it does not.
Agrees(k) ==
    IF accounts[k].present
    THEN /\ Cardinality(Rows(db["users"], k)) = 1
         /\ \A i \in Rows(db["users"], k) :
               /\ db["users"][i].email = accounts[k].email
               /\ db["users"][i].name = accounts[k].name
    ELSE Rows(db["users"], k) = {}

\* C32 (convergence to the source of truth): on the guide's pipeline, once
\* every local mutation's message has been dispatched, delivered and answered
\* with success and no message is in flight, the target store agrees with the
\* local store on every account, whatever order the messages arrived in.
Converges ==
    (helper = "syncToDatabase" /\ tasks = << >> /\ ~unsynced)
    => \A k \in AccountIds : Agrees(k)

-----------------------------------------------------------------------------
(* Two requests handled at the same time by one Receiver.  A handler runs   *)
(* up to its first await (the header check), resumes when the body is      *)
(* parsed, validates and calls the store, and answers when the store call  *)
(* returns.  The store call (a Convex mutation, the client's upsert or     *)
(* delete) is applied by the store as one transaction.                     *)

\* The users requests explored: authenticated, well typed, the payload the
\* record's own.
ConcurrentRequests(dep) ==
    {Req(IF dep = "convex" THEN "/convex/sync" ELSE "/sync", Secret, "users", o, k,
         UserData(k, e, "A"), Now) :
        o \in IF dep = "convex" THEN {"add", "set", "remove"}
              ELSE {"create", "update", "delete"},
        k \in Keys, e \in Emails}

\* The target stores the requests find: empty, or holding user u1.
StoresAtArrival ==
    {EmptyDb, [EmptyDb EXCEPT !["users"] = << Doc("u1", "a@x.com", "A", Undefined) >>]}

ConcurrentInit ==
    /\ deployment \in {"convex", "complete"}
    /\ env = Secret
    /\ db \in StoresAtArrival
    /\ before = db
    /\ pc = "idle"
    /\ req = NoRequest
    /\ resp = NoResponse
    /\ helper = "none"
    /\ accounts = [k \in AccountIds |-> NoAccount]
    /\ tasks = << >>
    /\ local = "idle"
    /\ done = NoCompletion
    /\ unsynced = FALSE
    /\ run = NoRun
    /\ helperCalls = << >>
    /\ handlers = NoHandlers

\* A request reaches the router and handler h starts: the header is read and
\* the handler waits for the body (await c.req.json()).
Accept(h) ==
    /\ handlers[h].stage = "none"
    /\ \E r \in ConcurrentRequests(deployment) :
          handlers' = [handlers EXCEPT ![h] = Handler("received", r, NoResponse)]
    /\ UNCHANGED << receiver, relay, dispatcher >>

\* The body is parsed; the handler resumes, validates it and calls the store.
Parse(h) ==
    /\ handlers[h].stage = "received"
    /\ handlers' = [handlers EXCEPT ![h].stage = "parsed"]
    /\ UNCHANGED << receiver, relay, dispatcher >>

\* The store applies the handler's call to the store as it is now.
Apply(h) ==
    /\ handlers[h].stage = "parsed"
    /\ LET o == Deliver(deployment, env, db, handlers[h].request)
       IN /\ DocCount(o.db) <= MaxDocs
          /\ db' = o.db
          /\ handlers' = [handlers EXCEPT ![h].stage = "applied", ![h].resp = o.resp]
    /\ UNCHANGED << deployment, env, pc, req, resp, before, relay, dispatcher >>

\* The handler resumes after the store call and sends its response.
Reply(h) ==
    /\ handlers[h].stage = "applied"
    /\ handlers' = [handlers EXCEPT ![h].stage = "answered"]
    /\ UNCHANGED << receiver, relay, dispatcher >>

ConcurrentNext ==
    \/ \E h \in HandlerIds : Accept(h)
    \/ \E h \in HandlerIds : Parse(h)
    \/ \E h \in HandlerIds : Apply(h)
    \/ \E h \in HandlerIds : Reply(h)

Concurrent == ConcurrentInit /\ [][ConcurrentNext]_vars

-----------------------------------------------------------------------------
(* C33 *)

\* Both requests were in the Receiver at the same time and both store calls
\* have returned.
BothApplied ==
    \A h \in HandlerIds : handlers[h].stage \in {"applied", "answered"}

\* The store handler h's request leaves when it is the only request.
Alone(h) ==
    Deliver(deployment, env, before, handlers[h].request).db

\* The store the two requests leave when h is handled first and g after it.
Serial(h, g) ==
    Deliver(deployment, env, Alone(h), handlers[g].request).db

\* Both requests were answered with success, and they do not compete for a
\* unique email: requests for different records carry different emails, and
\* none carries the email of another record of the store.
Compatible ==
    /\ \A h \in HandlerIds : handlers[h].resp.status = 200
    /\ handlers[1].request.id # handlers[2].request.id
           => handlers[1].request.data.email # handlers[2].request.data.email
    /\ \A h \in HandlerIds : \A i \in 1..Len(before["users"]) :
           before["users"][i].bladeId # handlers[h].request.id
               => before["users"][i].email # handlers[h].request.data.email

\* C33 (concurrent requests): of two users requests handled at the same
\* time and answered with success, requests for different recordIds each
\* leave their record as they leave it when run alone, and two CREATE/UPDATE
\* requests for one recordId leave exactly one record for it, in a store that
\* some serial order of the two produces.
ConcurrentRequestsSerialize ==
    (BothApplied /\ Compatible)
    => IF handlers[1].request.id # handlers[2].request.id
       THEN \A h \in HandlerIds :
               RecordOf(db, "users", handlers[h].request.id)
                   = RecordOf(Alone(h), "users", handlers[h].request.id)
       ELSE (\A h \in HandlerIds : handlers[h].request.operation \in WriteOps)
            => /\ Cardinality(Rows(db["users"], handlers[1].request.id)) = 1
               /\ db \in {Serial(1, 2), Serial(2, 1)}

-----------------------------------------------------------------------------
(* The SQL target store (examples/convex/router.ts, "Supabase setup SQL"): *)
(* the tables users, posts, comments and likes with their unique columns,  *)
(* their foreign keys (ON DELETE CASCADE) and the like-count triggers.     *)
(* A behaviour is a sequence of statements run against the schema: the     *)
(* upsert and the delete handleUserSync issues for a users message, and    *)
(* the inserts and deletes of posts, comments and likes.  `req` is the     *)
(* statement just run, `before` the store it found, `db` the store it      *)
(* left.  A table is the set of its rows.                                  *)

PostIds == {"p1"}
CommentIds == {"c1"}

EmptySql ==
    [users |-> {}, posts |-> {}, comments |-> {}, likes |-> {}]

\* A statement: the table, what it does, and the blade_id it names (none for
\* the likes table, whose rows have no blade_id).
Statement(model, operation, id) ==
    [model |-> model, operation |-> operation, id |-> id]

\* The rows of table t of store d whose blade_id is k.
Keyed(d, t, k) ==
    {row \in d[t] : row.bladeId = k}

\* like_count of the posts or comments row a likes row targets, after the
\* trigger function has run with step +1 (increment_like_count) or -1
\* (decrement_like_count, which stops at 0): the UPDATE matches the rows of
\* the table of the like's target_type whose blade_id is its target_blade_id.
LikeCountTrigger(d, like, step) ==
    LET t == IF like.type = "POST" THEN "posts" ELSE "comments"
        count(n) == IF step = 1 THEN n + 1 ELSE IF n - 1 > 0 THEN n - 1 ELSE 0
    IN [d EXCEPT ![t] = {IF row.bladeId = like.target
                         THEN [row EXCEPT !.likeCount = count(row.likeCount)]
                         ELSE row : row \in d[t]}]

RECURSIVE DeleteLikes(_, _)
\* DELETE of the likes rows in gone, likes_decrement firing for each row.
DeleteLikes(d, gone) ==
    IF gone = {} THEN d
    ELSE LET like == CHOOSE l \in gone : TRUE
         IN DeleteLikes(LikeCountTrigger([d EXCEPT !.likes = d.likes \ {like}], like, -1),
                        gone \ {like})

\* The store after the ON DELETE CASCADE actions of the foreign keys have
\* run: posts and likes of a user that is gone, comments of a user or of a
\* post that is gone.  (parent_blade_id is left out: one comment is explored.)
Cascade(d) ==
    LET has(t, k) == Keyed(d, t, k) # {}
        posts == {p \in d.posts : has("users", p.author)}
        kept == [d EXCEPT !.posts = posts]
        comments == {c \in d.comments :
                        has("users", c.author) /\ Keyed(kept, "posts", c.post) # {}}
    IN DeleteLikes([kept EXCEPT !.comments = comments],
                   {l \in d.likes : ~has("users", l.user)})

SupabaseInit ==
    /\ deployment = "supabase"
    /\ env = Secret
    /\ db = EmptySql
    /\ before = EmptySql
    /\ pc = "idle"
    /\ req = Statement("none", "none", Undefined)
    /\ resp = NoResponse
    /\ helper = "none"
    /\ accounts = [k \in AccountIds |-> NoAccount]
    /\ tasks = << >>
    /\ local = "idle"
    /\ done = NoCompletion
    /\ unsynced = FALSE
    /\ run = NoRun
    /\ helperCalls = << >>
    /\ handlers = NoHandlers

\* Statement s has run.
Executed(s) ==
    /\ before' = db
    /\ req' = s
    /\ UNCHANGED << deployment, env, pc, resp, relay, dispatcher, concurrent >>

\* INSERT INTO users ... ON CONFLICT (blade_id) DO UPDATE SET email = ...:
\* the statement fails when another row has the email (email is UNIQUE).
UpsertUser ==
    \E k \in Keys, e \in Emails :
        /\ \A u \in db.users : u.email = e => u.bladeId = k
        /\ db' = [db EXCEPT !.users = (db.users \ Keyed(db, "users", k))
                                           \cup {[bladeId |-> k, email |-> e]}]
        /\ Executed(Statement("users", "update", k))

\* DELETE FROM users WHERE blade_id = k.
DeleteUser ==
    \E k \in Keys :
        /\ db' = Cascade([db EXCEPT !.users = db.users \ Keyed(db, "users", k)])
        /\ Executed(Statement("users", "delete", k))

\* INSERT INTO posts: blade_id is UNIQUE, author_blade_id references a user,
\* like_count defaults to 0.
InsertPost ==
    \E p \in PostIds, a \in Keys :
        /\ Keyed(db, "posts", p) = {} /\ Keyed(db, "users", a) # {}
        /\ db' = [db EXCEPT !.posts = db.posts
                      \cup {[bladeId |-> p, author |-> a, likeCount |-> 0]}]
        /\ Executed(Statement("posts", "create", p))

\* INSERT INTO comments: post_blade_id references a post, author_blade_id a
\* user.
InsertComment ==
    \E c \in CommentIds, p \in PostIds, a \in Keys :
        /\ Keyed(db, "comments", c) = {}
        /\ Keyed(db, "posts", p) # {} /\ Keyed(db, "users", a) # {}
        /\ db' = [db EXCEPT !.comments = db.comments
                      \cup {[bladeId |-> c, post |-> p, author |-> a, likeCount |-> 0]}]
        /\ Executed(Statement("comments", "create", c))

\* INSERT INTO likes: user_blade_id references a user, (user_blade_id,
\* target_blade_id) is UNIQUE, target_blade_id references nothing;
\* likes_increment fires after the insert.
InsertLike ==
    \E u \in Keys, t \in PostIds \cup CommentIds, ty \in {"POST", "COMMENT"} :
        LET like == [user |-> u, target |-> t, type |-> ty]
        IN /\ Keyed(db, "users", u) # {}
           /\ \A l \in db.likes : ~(l.user = u /\ l.target = t)
           /\ db' = LikeCountTrigger([db EXCEPT !.likes = db.likes \cup {like}], like, 1)
           /\ Executed(Statement("likes", "create", Undefined))

\* DELETE FROM likes of one row; likes_decrement fires after the delete.
DeleteLike ==
    \E like \in db.likes :
        /\ db' = DeleteLikes(db, {like})
        /\ Executed(Statement("likes", "delete", Undefined))

SupabaseNext ==
    \/ UpsertUser
    \/ DeleteUser
    \/ InsertPost
    \/ InsertComment
    \/ InsertLike
    \/ DeleteLike

Supabase == SupabaseInit /\ [][SupabaseNext]_vars

-----------------------------------------------------------------------------
(* C34 *)

\* The rows of table t of store d that are not the record (model, k).
OtherRows(d, t, model, k) ==
    IF t = "likes" THEN d[t]
    ELSE {row \in d[t] : ~(t = model /\ row.bladeId = k)}

\* C34 (frame of a sync message): applying a users message for recordId r to
\* the SQL target store changes at most the users row keyed r; the rows of
\* the other tables and the users rows with other recordIds are as before,
\* also when the message deletes a user that other rows reference.
SyncFrame ==
    req.model = "users"
    => \A t \in DOMAIN db :
          OtherRows(db, t, "users", req.id) = OtherRows(before, t, "users", req.id)

-----------------------------------------------------------------------------
(* C37 *)

\* The likes rows that target the row keyed k of table t.
LikesOf(t, k) ==
    {l \in db.likes :
        l.target = k /\ l.type = (IF t = "posts" THEN "POST" ELSE "COMMENT")}

\* C37 (like counters): like_count of every post and comment is never
\* negative and equals the number of likes rows whose target_blade_id is the
\* row's blade_id with the matching target_type.
LikeCounters ==
    \A t \in {"posts", "comments"} : \A row \in db[t] :
        row.likeCount >= 0 /\ row.likeCount = Cardinality(LikesOf(t, row.bladeId))

-----------------------------------------------------------------------------
(* C36 *)

\* A call of the complete guide's syncToDatabase, with the secret configured,
\* whose model, operation or recordId is empty or missing.
BadArguments(c) ==
    /\ helper = "completeGuide" /\ env = Secret /\ c.by = "syncToDatabase"
    /\ (~Truthy(c.model) \/ ~Truthy(c.operation) \/ ~Truthy(c.id))

-----------------------------------------------------------------------------
(* C35 *)

\* C35 (trigger without waitUntil): a following* trigger invoked without a
\* waitUntil function does not throw and no sync request is issued for any
\* of its records.
WithoutWaitUntil ==
    (run.state # "idle" /\ ~run.w)
    => /\ run.state # "threw"
       /\ \A i \in 1..Len(helperCalls) : helperCalls[i].posts = 0

-----------------------------------------------------------------------------
(* The Convex Receiver with its optional health check endpoint.            *)

\* A health check that answers 'healthy' whatever the ping did.
ConvexHealthAlwaysHealthy(d, ping) ==
    Outcome(d, Bare(200, "Healthy", Undefined,
                    << <<"system", "ping", IF ping THEN "ok" ELSE "failed">> >>))

\* app.get('/convex/health'): convex.query('system:ping') inside try; 200
\* {status: 'healthy', convex: 'connected'} when it returns, 500 {status:
\* 'unhealthy', convex: 'disconnected', error} when it throws.  No header is
\* read.  The call and how it ended are recorded in calls.
ConvexHealth(d, ping) ==
    IF ping
    THEN Outcome(d, Bare(200, "Healthy", Undefined, << <<"system", "ping", "ok">> >>))
    ELSE Outcome(d, Bare(500, "Unhealthy", "error", << <<"system", "ping", "failed">> >>))

GetConvexHealth ==
    /\ pc = "idle" /\ deployment = "convex"
    /\ \E hdr \in HdrVals, ping \in BOOLEAN :
          Handled(Req("/convex/health", hdr, Undefined, Undefined, Undefined, NoData,
                      Undefined),
                  ConvexHealth(db, ping))

ReceiverWithHealthNext ==
    \/ Next
    \/ GetConvexHealth

ReceiverWithHealth == Init /\ [][ReceiverWithHealthNext]_vars

-----------------------------------------------------------------------------
(* C38 *)

\* C38 (health check): GET /convex/health, with or without a secret, pings
\* the target store; it answers 200 'healthy' / 'connected' exactly when the
\* ping succeeds and 500 'unhealthy' / 'disconnected' exactly when it fails,
\* and leaves the target store as it found it.
HealthCheck ==
    (pc = "responded" /\ req.route = "/convex/health")
    => /\ db = before
       /\ Len(resp.calls) = 1
       /\ (resp.status = 200 /\ resp.kind = "Healthy") = (resp.calls[1][3] = "ok")
       /\ (resp.status = 500 /\ resp.kind = "Unhealthy") = (resp.calls[1][3] = "failed")

\* A health check without any secret header, on a Receiver whose store holds
\* a record, has found the store unreachable and answered 500.
HealthCheckWitness ==
    /\ pc = "responded" /\ req.route = "/convex/health" /\ req.hdr = Undefined
    /\ DocCount(db) > 0 /\ db = before
    /\ resp.status = 500 /\ resp.calls[1][3] = "failed"

=============================================================================
